---- MODULE Spec2Model ----
(***************************************************************************)
(* Model of the NNN book extraction pipeline:                              *)
(*   - the stateful segmenter scan of                                      *)
(*     scripts/extract_shortened_new_book_content.py,                      *)
(*   - the text normalizers normalize_text / normalize_text_content,       *)
(*   - the field normalizer NNNContentNormalizer of                        *)
(*     scripts/normalize_nnn_content.py,                                   *)
(*   - the singular/plural normalizer of scripts/normalize_nnn_json.py.    *)
(*                                                                         *)
(* Text.  A Python string is modelled as a sequence of tokens.  A token is *)
(* a record [c, p]: c is either one separator character (" ", "-", ";",    *)
(* ".", ",", a newline, or a named non-ASCII character such as "ENDASH")   *)
(* or a whole word made of letters only; p is the page of the span the     *)
(* token was read from (0 for text that comes from no span, such as the    *)
(* " " inserted by a join).  The string operations of the code look at c   *)
(* only; p is carried along so that the origin of every stored character   *)
(* can be stated.                                                          *)
(*                                                                         *)
(* Sizes are modelled in tenths of a point (14.0 is 140).                  *)
(***************************************************************************)
EXTENDS Integers, Sequences, FiniteSets, TLC

VARIABLES
    pc,              \* position of the running program
    all_spans,       \* segmenter: the materialised span list
    diagnosis_set,   \* segmenter: the identity set (plain texts)
    i, j, k,         \* segmenter: cursor and lookahead indices (0-based)
    entry,           \* segmenter: the open record (ordered key/value pairs)
    results,         \* segmenter: committed records
    sub_label,       \* segmenter: label text being merged
    content,         \* segmenter: content units of the label
    outcomes,        \* segmenter: outcome lines of client_outcomes
    content_text,    \* segmenter: content unit being merged
    client_will,     \* segmenter: header text of client_outcomes
    norm_label,      \* segmenter: key of the label being filled
    txt_in,          \* text normalizers: the input string
    txt_out,         \* text normalizers: the results so far
    data,            \* field normalizer: input records
    normalized_data, \* field normalizer: output records
    errors,          \* field normalizer: stats['errors']
    aborted,         \* field normalizer: an exception left normalize_data
    run,             \* field normalizer: 1, or 2 when fed its own output
    previous,        \* field normalizer: the output of the first run
    headings,        \* index-based extractor: the headings found
    subsections,     \* index-based extractor: the subsection labels found
    diagnosis_sections, \* index-based extractor: the records built
    field_stats      \* singular/plural normalizer: the counters

vars == << pc, all_spans, diagnosis_set, i, j, k, entry, results,
           sub_label, content, outcomes, content_text, client_will,
           norm_label, txt_in, txt_out, data, normalized_data, errors, aborted,
           run, previous, headings, subsections, diagnosis_sections, field_stats >>

scanVars == << all_spans, diagnosis_set, i, j, k, entry, results,
               sub_label, content, outcomes, content_text, client_will,
               norm_label >>
textVars == << txt_in, txt_out >>
normVars == << data, normalized_data, errors, aborted, run, previous >>
rawVars == << headings, subsections, diagnosis_sections >>
jsonVars == << field_stats >>

(***************************************************************************)
(* Bounds of the model.                                                    *)
(***************************************************************************)
MaxTail == 2
MaxPage == 2
MaxLen == 3
MaxKeys == 2
MaxRecords == 2
MaxSpans == 3

(***************************************************************************)
(* Generic helpers.                                                        *)
(***************************************************************************)
Min(S) == CHOOSE x \in S : \A y \in S : x <= y
Max(S) == CHOOSE x \in S : \A y \in S : x >= y

\* F applied to the value of x. The value is computed once, so a chain of
\* string operations costs the sum of its stages when TLC evaluates it.
Then(x, F(_)) == CHOOSE r \in { F(y) : y \in { x } } : TRUE

\* A plain text (sequence of characters/words) read from page p.
Tag(plain, p) == [n \in 1..Len(plain) |-> [c |-> plain[n], p |-> p]]
\* The characters of a text, without their origin.
Plain(s) == [n \in 1..Len(s) |-> s[n].c]
\* The pages the characters of a text come from.
PagesOf(s) == {s[n].p : n \in 1..Len(s)} \ {0}

SP == [c |-> " ", p |-> 0]

IsSpace(c) == c \in {" ", "\n", "\t"}
IsInvisible(c) == c \in {"ZWSP", "LRM", "WJ"}
IsDash(c) == c \in {"SHY", "HYPHEN", "NBHYPHEN", "FIGDASH", "ENDASH", "EMDASH", "MINUS"}

\* str.lower() on the words of the model's alphabet.
LowerWord(c) ==
    CASE c = "Fear" -> "fear"
      [] c = "Definition" -> "definition"
      [] c = "Diagnosis" -> "diagnosis"
      [] c = "Client" -> "client"
      [] c = "Outcomes" -> "outcomes"
      [] c = "Nursing" -> "nursing"
      [] c = "Interventions" -> "interventions"
      [] c = "A" -> "a"
      [] c = "CAP_A_UML" -> "a_uml"
      [] OTHER -> c
Lower(s) == [n \in 1..Len(s) |-> [s[n] EXCEPT !.c = LowerWord(s[n].c)]]

\* str.strip()
Strip(s) ==
    LET keep == {n \in 1..Len(s) : ~IsSpace(s[n].c)}
    IN  IF keep = {} THEN << >> ELSE SubSeq(s, Min(keep), Max(keep))

\* str.replace(a, b) for single characters
ReplaceChar(s, a, b) ==
    [n \in 1..Len(s) |-> IF s[n].c = a THEN [s[n] EXCEPT !.c = b] ELSE s[n]]

\* the positions of s that satisfy keep, in order
RECURSIVE KeepFrom(_, _, _)
KeepFrom(s, keep, n) ==
    IF n > Len(s) THEN << >>
    ELSE (IF n \in keep THEN << s[n] >> ELSE << >>) \o KeepFrom(s, keep, n + 1)

(***************************************************************************)
(* extract_shortened_new_book_content.py: normalize_text and friends.      *)
(***************************************************************************)
\* re.sub of the zero-width and directional characters by ""
RemoveInvisible(s) == SelectSeq(s, LAMBDA t : ~IsInvisible(t.c))

\* the chain of .replace(<dash>, "-")
FoldDashes(s) ==
    [n \in 1..Len(s) |-> IF IsDash(s[n].c) THEN [s[n] EXCEPT !.c = "-"] ELSE s[n]]

\* re.sub(r"-+", "-", text): every run of hyphens becomes its first hyphen
CollapseHyphens(s) ==
    KeepFrom(s, {n \in 1..Len(s) : ~(s[n].c = "-" /\ n > 1 /\ s[n - 1].c = "-")}, 1)

\* re.sub(r"\s*-\s*", "-", text): the whitespace runs that touch a hyphen go
TightenHyphens(s) ==
    LET touches(n) ==
            \E m \in 1..Len(s) :
                /\ s[m].c = "-"
                /\ \A q \in (IF n < m THEN n ELSE m) + 1 .. (IF n < m THEN m ELSE n) - 1 :
                       IsSpace(s[q].c)
    IN  KeepFrom(s, {n \in 1..Len(s) : ~(IsSpace(s[n].c) /\ touches(n))}, 1)

\* the chain of .replace(<quote>, <ascii quote>)
FoldQuotes(s) ==
    [n \in 1..Len(s) |->
        IF s[n].c \in {"RSQUO", "LSQUO", "ACUTE", "BACKTICK"} THEN [s[n] EXCEPT !.c = "APOS"]
        ELSE IF s[n].c \in {"LDQUO", "RDQUO"} THEN [s[n] EXCEPT !.c = "DQUOTE"]
        ELSE s[n]]

\* lines 29-58, one stage per statement
normalize_text(s) ==
    Then(Then(Then(Then(Then(Then(s,
        RemoveInvisible), FoldDashes), CollapseHyphens), TightenHyphens), FoldQuotes), Strip)

\* key.strip().replace(" ", "_")
StripToKey(s) == ReplaceChar(Then(s, Strip), " ", "_")

\* lines 65-69
normalize_key(s) ==
    Then(Then(Then(Then(s, Lower), normalize_text), CollapseHyphens), StripToKey)

\* lines 71-72
normalize_val(s) == Then(Then(s, Strip), normalize_text)

(***************************************************************************)
(* Python values held by a record.  Every value has the same four fields:  *)
(*   kind "str":  str is the string                                        *)
(*   kind "list": items is the list of strings                             *)
(*   kind "int":  num is the number                                        *)
(*   kind "map":  the client_outcomes map, str is client_will and items is *)
(*                outcomes                                                 *)
(*   kind "null": None                                                     *)
(* A dict is the sequence of its [key, val] pairs in insertion order.      *)
(***************************************************************************)
StrVal(s) == [kind |-> "str", str |-> s, items |-> << >>, num |-> 0]
ListVal(l) == [kind |-> "list", str |-> << >>, items |-> l, num |-> 0]
IntVal(n) == [kind |-> "int", str |-> << >>, items |-> << >>, num |-> n]
MapVal(will, outs) == [kind |-> "map", str |-> will, items |-> outs, num |-> 0]
NullVal == [kind |-> "null", str |-> << >>, items |-> << >>, num |-> 0]

Key(plain) == Tag(plain, 0)
HasKey(d, key) == \E n \in 1..Len(d) : Plain(d[n].key) = Plain(key)
\* d[key] = val: an existing key keeps its place, a new key goes last
DictSet(d, key, val) ==
    IF HasKey(d, key)
    THEN [n \in 1..Len(d) |->
             IF Plain(d[n].key) = Plain(key) THEN [d[n] EXCEPT !.val = val] ELSE d[n]]
    ELSE Append(d, [key |-> key, val |-> val])
DictGet(d, key) == d[CHOOSE n \in 1..Len(d) : Plain(d[n].key) = Plain(key)].val
Keys(d) == [n \in 1..Len(d) |-> Plain(d[n].key)]

\* sep.join(parts)
RECURSIVE Join(_, _)
Join(parts, sep) ==
    IF parts = << >> THEN << >>
    ELSE IF Len(parts) = 1 THEN parts[1]
    ELSE parts[1] \o sep \o Join(Tail(parts), sep)

\* str.split(ch): the pieces between the occurrences of ch
RECURSIVE Split(_, _)
Split(s, ch) ==
    LET at == {n \in 1..Len(s) : s[n].c = ch}
    IN  IF at = {} THEN << s >>
        ELSE << SubSeq(s, 1, Min(at) - 1) >> \o Split(SubSeq(s, Min(at) + 1, Len(s)), ch)

\* str.startswith(prefix), on plain texts
StartsWith(plain, prefix) ==
    Len(plain) >= Len(prefix) /\ SubSeq(plain, 1, Len(prefix)) = prefix

(***************************************************************************)
(* extract_shortened_new_book_content.py: formatting constants.            *)
(***************************************************************************)
DIAGNOSIS_FONT == "HelveticaNeueLTStd-Bd"
DIAGNOSIS_SIZE == 140
DIAGNOSIS_COLOR == 16777215
SUBSECTION_SIZE == 100
SUBSECTION_COLOR == 4153748
CONTENT_FONTS == {"MinionPro-Regular", "MinionPro-Bold", "MinionPro-It"}
CONTENT_SIZE == 95
CONTENT_COLOR == 2301728
STOP_SUBSECTION == << "nursing", " ", "interventions", " ", "and" >>
CLIENT_WILL_COLOR == 10242925
BULLET_SIZE == 150

\* STOP_SUBSECTION.replace(" ", "_")
StopKey == [n \in 1..Len(STOP_SUBSECTION) |->
               IF STOP_SUBSECTION[n] = " " THEN "_" ELSE STOP_SUBSECTION[n]]
ClientOutcomesKey == << "client", "_", "outcomes" >>
DiagnosisKey == << "diagnosis" >>
PageNumKey == << "page", "_", "num" >>

(***************************************************************************)
(* The inputs of the segmenter: the spans PyMuPDF yields (text, font,      *)
(* size, color) and the diagnosis list read from new_diagnoses_list.json.  *)
(***************************************************************************)
RawSpan(text, font, size, color) ==
    [text |-> text, font |-> font, size |-> size, color |-> color]

HeadingSpan == RawSpan(<< "Fear" >>, DIAGNOSIS_FONT, DIAGNOSIS_SIZE, DIAGNOSIS_COLOR)
LabelSpan == RawSpan(<< "Definition" >>, "HelveticaNeueLTStd-Md", SUBSECTION_SIZE, SUBSECTION_COLOR)
OutcomesLabelSpan ==
    RawSpan(<< "Client", " ", "Outcomes" >>, "HelveticaNeueLTStd-Md", SUBSECTION_SIZE, SUBSECTION_COLOR)
StopLabelSpan ==
    RawSpan(<< "Nursing", " ", "Interventions", " ", "and" >>, "HelveticaNeueLTStd-Md",
            SUBSECTION_SIZE, SUBSECTION_COLOR)
ContentSpanA == RawSpan(<< "a" >>, "MinionPro-Regular", CONTENT_SIZE, CONTENT_COLOR)
ContentSpanBC == RawSpan(<< "b", ";", "c" >>, "MinionPro-It", CONTENT_SIZE, CONTENT_COLOR)
ClientWillSpan ==
    RawSpan(<< "Client", " ", "Will" >>, "HelveticaNeueLTStd-Bd", CONTENT_SIZE, CLIENT_WILL_COLOR)
BulletSpan == RawSpan(<< "BULLET" >>, "MinionPro-Regular", BULLET_SIZE, CONTENT_COLOR)

\* a body line whose text is blank, and one whose text is a diagnosis name
EmptyContentSpan == RawSpan(<< " " >>, "MinionPro-Regular", CONTENT_SIZE, CONTENT_COLOR)
ContentSpanFear == RawSpan(<< "Fear" >>, "MinionPro-It", CONTENT_SIZE, CONTENT_COLOR)

\* a label whose key is the name of an identity field
DiagnosisLabelSpan ==
    RawSpan(<< "Diagnosis" >>, "HelveticaNeueLTStd-Md", SUBSECTION_SIZE, SUBSECTION_COLOR)

Palette == { HeadingSpan, LabelSpan, OutcomesLabelSpan, StopLabelSpan,
             ContentSpanA, ContentSpanBC, ClientWillSpan, BulletSpan,
             EmptyContentSpan, ContentSpanFear, DiagnosisLabelSpan }

DiagnosisLists == { << >>, << << "Fear" >> >> }

\* lines 74-87: the span list, in document order (the "index" entry of a span
\* is its position in the list; the scan never reads it)
CollectSpans(raw, page) ==
    [n \in 1..Len(raw) |->
        [text |-> Then(Then(Then(Tag(raw[n].text, page[n]), Strip), normalize_text), Plain),
         font |-> raw[n].font, size |-> raw[n].size, color |-> raw[n].color,
         page_num |-> page[n]]]

\* lines 60-63
DiagnosisSet(list) ==
    {Then(Then(Then(Then(Tag(list[n], 0), Lower), Strip), normalize_text), Plain) :
        n \in 1..Len(list)}

\* The span lists the model runs on: one of the openings below, on page 1,
\* followed by at most MaxTail spans of the palette on pages that never decrease.
Openings == { << >>,
              << HeadingSpan, LabelSpan >>,
              << HeadingSpan, OutcomesLabelSpan, ClientWillSpan >> }

PageLayouts(m, n) ==
    {pg \in [1..(m + n) -> 1..MaxPage] :
        /\ \A a \in 1..m : pg[a] = 1
        /\ \A a \in 1..(m + n), b \in 1..(m + n) : a <= b => pg[a] <= pg[b]}

\* all_spans[n], with Python's 0-based index
SpanAt(n) == all_spans[n + 1]
TextAt(n) == Tag(all_spans[n + 1].text, all_spans[n + 1].page_num)

IsDiagnosisStyle(sp) ==
    sp.font = DIAGNOSIS_FONT /\ sp.size = DIAGNOSIS_SIZE /\ sp.color = DIAGNOSIS_COLOR
IsSubsectionStyle(sp) == sp.size = SUBSECTION_SIZE /\ sp.color = SUBSECTION_COLOR
IsContentStyle(sp) ==
    sp.font \in CONTENT_FONTS /\ sp.size = CONTENT_SIZE /\ sp.color = CONTENT_COLOR
IsClientWillStyle(sp) ==
    sp.font = "HelveticaNeueLTStd-Bd" /\ sp.size = CONTENT_SIZE /\ sp.color = CLIENT_WILL_COLOR
IsBulletStyle(sp) ==
    sp.font = "MinionPro-Regular" /\ sp.size = BULLET_SIZE /\ sp.color = CONTENT_COLOR
IsOutcomeLineStyle(sp) ==
    sp.font = "MinionPro-Regular" /\ sp.size = CONTENT_SIZE /\ sp.color = CONTENT_COLOR

\* normalize_text(span["text"].lower().strip()) in diagnosis_set
InDiagnosisSet(sp) ==
    Then(Then(Then(Then(Tag(sp.text, sp.page_num), Lower), Strip), normalize_text), Plain)
        \in diagnosis_set
\* lines 105-108 and 145
IsNextDiagnosis(sp) == IsDiagnosisStyle(sp) /\ InDiagnosisSet(sp)

(***************************************************************************)
(* extract_shortened_new_book_content.py, lines 89-219: the scan.  One     *)
(* action per iteration or exit of each of its loops.                      *)
(***************************************************************************)
\* the parts of the state a run of another program leaves alone
ScanIdle ==
    /\ all_spans = << >> /\ diagnosis_set = { }
    /\ i = 0 /\ j = 0 /\ k = 0
    /\ entry = << >> /\ results = << >>
    /\ sub_label = << >> /\ content = << >> /\ outcomes = << >>
    /\ content_text = << >> /\ client_will = << >> /\ norm_label = << >>
TextIdle == txt_in = << >> /\ txt_out = << >>
NormIdle ==
    /\ data = << >> /\ normalized_data = << >> /\ errors = << >> /\ aborted = FALSE
    /\ run = 1 /\ previous = << >>
RawIdle == headings = << >> /\ subsections = << >> /\ diagnosis_sections = << >>
JsonIdle == field_stats = << >>

InitScan ==
    /\ \E opening \in Openings, n \in 0..MaxTail :
           \E tail \in [1..n -> Palette] :
               \E page \in PageLayouts(Len(opening), n) :
                   all_spans = CollectSpans(opening \o tail, page)
    /\ diagnosis_set \in {DiagnosisSet(l) : l \in DiagnosisLists}
    /\ pc = "seek"
    /\ i = 0 /\ j = 0 /\ k = 0
    /\ entry = << >>
    /\ results = << >>
    /\ sub_label = << >>
    /\ content = << >>
    /\ outcomes = << >>
    /\ content_text = << >>
    /\ client_will = << >>
    /\ norm_label = << >>
    /\ TextIdle /\ NormIdle /\ RawIdle /\ JsonIdle

\* mutant of Commit: the record is appended whatever it holds
Commit_Always(res, e) == Append(res, e)

\* lines 202-204: only append if entry has more than diagnosis and page_num
Commit(res, e) == IF Len(e) > 2 THEN Append(res, e) ELSE res

\* line 193: " ".join(content).replace("\n", " ").strip()
JoinUnits(units) ==
    Then(Then(Join(units, << SP >>), LAMBDA t : ReplaceChar(t, "\n", " ")), Strip)

\* line 195: [normalize_val(c) for c in joined.split(";") if c.strip()]
SplitUnits(joined) ==
    Then(Then(Split(joined, ";"), LAMBDA ps : SelectSeq(ps, LAMBDA c : Strip(c) # << >>)),
         LAMBDA ps : [n \in 1..Len(ps) |-> normalize_val(ps[n])])

\* mutant of ShapeJoined: a single unit is stored as a one-element list
ShapeJoined_NeverScalar(units, joined) ==
    IF \E n \in 1..Len(joined) : joined[n].c = ";"
    THEN ListVal(SplitUnits(joined))
    ELSE ListVal([n \in 1..Len(units) |-> normalize_val(units[n])])

\* lines 192-199: the value stored for a label with content
ShapeJoined(units, joined) ==
    IF \E n \in 1..Len(joined) : joined[n].c = ";"
    THEN ListVal(SplitUnits(joined))
    ELSE IF Len(units) = 1
    THEN StrVal(units[1])
    ELSE ListVal([n \in 1..Len(units) |-> normalize_val(units[n])])
ShapeValue(units) == Then(JoinUnits(units), LAMBDA joined : ShapeJoined(units, joined))

\* lines 92-100: a span whose text is in the diagnosis set opens a record
OpenRecord ==
    /\ pc = "seek" /\ i < Len(all_spans)
    /\ InDiagnosisSet(SpanAt(i))
    /\ entry' = << [key |-> Key(DiagnosisKey), val |-> StrVal(normalize_val(TextAt(i)))],
                   [key |-> Key(PageNumKey), val |-> IntVal(SpanAt(i).page_num)] >>
    /\ i' = i + 1
    /\ pc' = "in_record"
    /\ UNCHANGED << all_spans, diagnosis_set, j, k, results, sub_label, content,
                    outcomes, content_text, client_will, norm_label >>
    /\ UNCHANGED << textVars, normVars, rawVars, jsonVars >>

\* lines 205-219: any other span is passed over
SkipSpan ==
    /\ pc = "seek" /\ i < Len(all_spans)
    /\ ~InDiagnosisSet(SpanAt(i))
    /\ i' = i + 1
    /\ UNCHANGED << pc, all_spans, diagnosis_set, j, k, entry, results, sub_label,
                    content, outcomes, content_text, client_will, norm_label >>
    /\ UNCHANGED << textVars, normVars, rawVars, jsonVars >>

\* line 92: the outer loop ends
Finish ==
    /\ pc = "seek" /\ i >= Len(all_spans)
    /\ pc' = "done"
    /\ UNCHANGED << scanVars, textVars, normVars, rawVars, jsonVars >>

\* mutant of CloseRecord: the heading that ends the record is consumed
CloseRecord_Advances ==
    /\ pc = "in_record"
    /\ IF i >= Len(all_spans) THEN TRUE ELSE IsNextDiagnosis(SpanAt(i))
    /\ results' = Commit(results, entry)
    /\ pc' = "seek"
    /\ i' = i + 1
    /\ UNCHANGED << all_spans, diagnosis_set, j, k, entry, sub_label, content,
                    outcomes, content_text, client_will, norm_label >>
    /\ UNCHANGED << textVars, normVars, rawVars, jsonVars >>

\* lines 102-109 and 202-204: the in-record loop ends at the end of the spans or
\* at the next diagnosis heading; the record is committed if it has a field
CloseRecord ==
    /\ pc = "in_record"
    /\ IF i >= Len(all_spans) THEN TRUE ELSE IsNextDiagnosis(SpanAt(i))
    /\ results' = Commit(results, entry)
    /\ pc' = "seek"
    /\ UNCHANGED << all_spans, diagnosis_set, i, j, k, entry, sub_label, content,
                    outcomes, content_text, client_will, norm_label >>
    /\ UNCHANGED << textVars, normVars, rawVars, jsonVars >>

\* mutant of StartLabel: the lookahead starts at the label itself
StartLabel_NoLookahead ==
    /\ pc = "in_record" /\ i < Len(all_spans)
    /\ ~IsNextDiagnosis(SpanAt(i))
    /\ IsSubsectionStyle(SpanAt(i))
    /\ sub_label' = TextAt(i)
    /\ j' = i
    /\ pc' = "label_merge"
    /\ UNCHANGED << all_spans, diagnosis_set, i, k, entry, results, content,
                    outcomes, content_text, client_will, norm_label >>
    /\ UNCHANGED << textVars, normVars, rawVars, jsonVars >>

\* lines 112-114: a label-styled span starts a label
StartLabel ==
    /\ pc = "in_record" /\ i < Len(all_spans)
    /\ ~IsNextDiagnosis(SpanAt(i))
    /\ IsSubsectionStyle(SpanAt(i))
    /\ sub_label' = TextAt(i)
    /\ j' = i + 1
    /\ pc' = "label_merge"
    /\ UNCHANGED << all_spans, diagnosis_set, i, k, entry, results, content,
                    outcomes, content_text, client_will, norm_label >>
    /\ UNCHANGED << textVars, normVars, rawVars, jsonVars >>

\* mutant of SkipNoise: the cursor is not advanced
SkipNoise_Stuck ==
    /\ pc = "in_record" /\ i < Len(all_spans)
    /\ ~IsNextDiagnosis(SpanAt(i))
    /\ ~IsSubsectionStyle(SpanAt(i))
    /\ UNCHANGED << pc, scanVars, textVars, normVars, rawVars, jsonVars >>

\* line 201: a span that is neither heading nor label is passed over
SkipNoise ==
    /\ pc = "in_record" /\ i < Len(all_spans)
    /\ ~IsNextDiagnosis(SpanAt(i))
    /\ ~IsSubsectionStyle(SpanAt(i))
    /\ i' = i + 1
    /\ UNCHANGED << pc, all_spans, diagnosis_set, j, k, entry, results, sub_label,
                    content, outcomes, content_text, client_will, norm_label >>
    /\ UNCHANGED << textVars, normVars, rawVars, jsonVars >>

\* lines 115-118: the label merge continues
LabelContinues ==
    /\ j < Len(all_spans)
    /\ IsSubsectionStyle(SpanAt(j))
    /\ SpanAt(j).page_num = SpanAt(i).page_num

\* mutant of MergeLabel: the spans of a label are joined without a space
MergeLabel_NoSeparator ==
    /\ pc = "label_merge"
    /\ LabelContinues
    /\ sub_label' = sub_label \o TextAt(j)
    /\ j' = j + 1
    /\ UNCHANGED << pc, all_spans, diagnosis_set, i, k, entry, results, content,
                    outcomes, content_text, client_will, norm_label >>
    /\ UNCHANGED << textVars, normVars, rawVars, jsonVars >>

\* lines 119-120
MergeLabel ==
    /\ pc = "label_merge"
    /\ LabelContinues
    /\ sub_label' = sub_label \o << SP >> \o TextAt(j)
    /\ j' = j + 1
    /\ UNCHANGED << pc, all_spans, diagnosis_set, i, k, entry, results, content,
                    outcomes, content_text, client_will, norm_label >>
    /\ UNCHANGED << textVars, normVars, rawVars, jsonVars >>

\* line 124
IsStopLabel(label) == StartsWith(Plain(label), StopKey)

\* lines 121-125: the stop marker ends the record
StopRecord ==
    /\ pc = "label_merge"
    /\ ~LabelContinues
    /\ IsStopLabel(normalize_key(sub_label))
    /\ norm_label' = normalize_key(sub_label)
    /\ results' = Commit(results, entry)
    /\ pc' = "seek"
    /\ UNCHANGED << all_spans, diagnosis_set, i, j, k, entry, sub_label, content,
                    outcomes, content_text, client_will >>
    /\ UNCHANGED << textVars, normVars, rawVars, jsonVars >>

\* lines 127-139: client_outcomes followed by the "Client Will" header
OpenOutcomes ==
    /\ pc = "label_merge"
    /\ ~LabelContinues
    /\ ~IsStopLabel(normalize_key(sub_label))
    /\ Plain(normalize_key(sub_label)) = ClientOutcomesKey
    /\ j < Len(all_spans) /\ IsClientWillStyle(SpanAt(j))
    /\ norm_label' = normalize_key(sub_label)
    /\ client_will' = TextAt(j)
    /\ i' = j + 1
    /\ outcomes' = << >>
    /\ pc' = "outcomes"
    /\ UNCHANGED << all_spans, diagnosis_set, j, k, entry, results, sub_label,
                    content, content_text >>
    /\ UNCHANGED << textVars, normVars, rawVars, jsonVars >>

\* lines 127-136 and 171: client_outcomes without the header stores nothing
SkipOutcomes ==
    /\ pc = "label_merge"
    /\ ~LabelContinues
    /\ ~IsStopLabel(normalize_key(sub_label))
    /\ Plain(normalize_key(sub_label)) = ClientOutcomesKey
    /\ ~(j < Len(all_spans) /\ IsClientWillStyle(SpanAt(j)))
    /\ norm_label' = normalize_key(sub_label)
    /\ i' = j
    /\ pc' = "in_record"
    /\ UNCHANGED << all_spans, diagnosis_set, j, k, entry, results, sub_label,
                    content, outcomes, content_text, client_will >>
    /\ UNCHANGED << textVars, normVars, rawVars, jsonVars >>

\* lines 127 and 173-175: any other label opens the content capture
OpenContent ==
    /\ pc = "label_merge"
    /\ ~LabelContinues
    /\ ~IsStopLabel(normalize_key(sub_label))
    /\ Plain(normalize_key(sub_label)) # ClientOutcomesKey
    /\ norm_label' = normalize_key(sub_label)
    /\ i' = j
    /\ content' = << >>
    /\ pc' = "content"
    /\ UNCHANGED << all_spans, diagnosis_set, j, k, entry, results, sub_label,
                    outcomes, content_text, client_will >>
    /\ UNCHANGED << textVars, normVars, rawVars, jsonVars >>

\* lines 176-179: the content capture continues at a content-styled span
ContentContinues == i < Len(all_spans) /\ IsContentStyle(SpanAt(i))

\* lines 180-181
StartContent ==
    /\ pc = "content"
    /\ ContentContinues
    /\ content_text' = TextAt(i)
    /\ k' = i + 1
    /\ pc' = "content_merge"
    /\ UNCHANGED << all_spans, diagnosis_set, i, j, entry, results, sub_label,
                    content, outcomes, client_will, norm_label >>
    /\ UNCHANGED << textVars, normVars, rawVars, jsonVars >>

\* lines 192-200: the capture ends; the value is stored if there is content
StoreField ==
    /\ pc = "content"
    /\ ~ContentContinues
    /\ entry' = IF content # << >> THEN DictSet(entry, norm_label, ShapeValue(content))
                ELSE entry
    /\ pc' = "in_record"
    /\ UNCHANGED << all_spans, diagnosis_set, i, j, k, results, sub_label, content,
                    outcomes, content_text, client_will, norm_label >>
    /\ UNCHANGED << textVars, normVars, rawVars, jsonVars >>

\* lines 182-186: the unit grows over content-styled spans of the same page
UnitContinues ==
    /\ k < Len(all_spans)
    /\ IsContentStyle(SpanAt(k))
    /\ SpanAt(k).page_num = SpanAt(i).page_num

\* lines 187-188
MergeContent ==
    /\ pc = "content_merge"
    /\ UnitContinues
    /\ content_text' = content_text \o << SP >> \o TextAt(k)
    /\ k' = k + 1
    /\ UNCHANGED << pc, all_spans, diagnosis_set, i, j, entry, results, sub_label,
                    content, outcomes, client_will, norm_label >>
    /\ UNCHANGED << textVars, normVars, rawVars, jsonVars >>

\* lines 189-190
EndContent ==
    /\ pc = "content_merge"
    /\ ~UnitContinues
    /\ content' = Append(content, normalize_val(content_text))
    /\ i' = k
    /\ pc' = "content"
    /\ UNCHANGED << all_spans, diagnosis_set, j, k, entry, results, sub_label,
                    outcomes, content_text, client_will, norm_label >>
    /\ UNCHANGED << textVars, normVars, rawVars, jsonVars >>

\* lines 141-147: the outcomes loop ends at the end of the spans, at a label or
\* at a diagnosis heading
OutcomesEnd ==
    IF i >= Len(all_spans) THEN TRUE
    ELSE IF IsSubsectionStyle(SpanAt(i)) THEN TRUE
    ELSE IsNextDiagnosis(SpanAt(i))

\* lines 168-171
StoreOutcomes ==
    /\ pc = "outcomes"
    /\ OutcomesEnd
    /\ entry' = DictSet(entry, norm_label,
                        MapVal(normalize_val(client_will),
                               [n \in 1..Len(outcomes) |-> normalize_val(outcomes[n])]))
    /\ pc' = "in_record"
    /\ UNCHANGED << all_spans, diagnosis_set, i, j, k, results, sub_label, content,
                    outcomes, content_text, client_will, norm_label >>
    /\ UNCHANGED << textVars, normVars, rawVars, jsonVars >>

\* mutant of SkipBullet: the bullet marker is collected as a line
SkipBullet_Collects ==
    /\ pc = "outcomes"
    /\ ~OutcomesEnd
    /\ IsBulletStyle(SpanAt(i))
    /\ outcomes' = Append(outcomes, normalize_val(TextAt(i)))
    /\ i' = i + 1
    /\ UNCHANGED << pc, all_spans, diagnosis_set, j, k, entry, results, sub_label,
                    content, content_text, client_will, norm_label >>
    /\ UNCHANGED << textVars, normVars, rawVars, jsonVars >>

\* lines 148-151
SkipBullet ==
    /\ pc = "outcomes"
    /\ ~OutcomesEnd
    /\ IsBulletStyle(SpanAt(i))
    /\ i' = i + 1
    /\ UNCHANGED << pc, all_spans, diagnosis_set, j, k, entry, results, sub_label,
                    content, outcomes, content_text, client_will, norm_label >>
    /\ UNCHANGED << textVars, normVars, rawVars, jsonVars >>

\* lines 152-156
StartOutcome ==
    /\ pc = "outcomes"
    /\ ~OutcomesEnd
    /\ ~IsBulletStyle(SpanAt(i))
    /\ IsOutcomeLineStyle(SpanAt(i))
    /\ content_text' = TextAt(i)
    /\ k' = i + 1
    /\ pc' = "outcomes_merge"
    /\ UNCHANGED << all_spans, diagnosis_set, i, j, entry, results, sub_label,
                    content, outcomes, client_will, norm_label >>
    /\ UNCHANGED << textVars, normVars, rawVars, jsonVars >>

\* line 167
SkipOther ==
    /\ pc = "outcomes"
    /\ ~OutcomesEnd
    /\ ~IsBulletStyle(SpanAt(i))
    /\ ~IsOutcomeLineStyle(SpanAt(i))
    /\ i' = i + 1
    /\ UNCHANGED << pc, all_spans, diagnosis_set, j, k, entry, results, sub_label,
                    content, outcomes, content_text, client_will, norm_label >>
    /\ UNCHANGED << textVars, normVars, rawVars, jsonVars >>

\* lines 157-161
OutcomeContinues ==
    /\ k < Len(all_spans)
    /\ IsOutcomeLineStyle(SpanAt(k))
    /\ SpanAt(k).page_num = SpanAt(i).page_num

\* lines 162-163
MergeOutcome ==
    /\ pc = "outcomes_merge"
    /\ OutcomeContinues
    /\ content_text' = content_text \o << SP >> \o TextAt(k)
    /\ k' = k + 1
    /\ UNCHANGED << pc, all_spans, diagnosis_set, i, j, entry, results, sub_label,
                    content, outcomes, client_will, norm_label >>
    /\ UNCHANGED << textVars, normVars, rawVars, jsonVars >>

\* lines 164-166
EndOutcome ==
    /\ pc = "outcomes_merge"
    /\ ~OutcomeContinues
    /\ outcomes' = Append(outcomes, normalize_val(content_text))
    /\ i' = k
    /\ pc' = "outcomes"
    /\ UNCHANGED << all_spans, diagnosis_set, j, k, entry, results, sub_label,
                    content, content_text, client_will, norm_label >>
    /\ UNCHANGED << textVars, normVars, rawVars, jsonVars >>

NextScan ==
    \/ OpenRecord \/ SkipSpan \/ Finish
    \/ CloseRecord \/ StartLabel \/ SkipNoise
    \/ MergeLabel \/ StopRecord \/ OpenOutcomes \/ SkipOutcomes \/ OpenContent
    \/ StartContent \/ StoreField \/ MergeContent \/ EndContent
    \/ StoreOutcomes \/ SkipBullet \/ StartOutcome \/ SkipOther
    \/ MergeOutcome \/ EndOutcome

SpecScan == InitScan /\ [][NextScan]_vars

\* the scan is one sequential program: it keeps running until it is done
FairScan == SpecScan /\ WF_vars(NextScan)

(***************************************************************************)
(* Properties of the scan.                                                 *)
(***************************************************************************)
\* the strings held by a value
StringsOf(v) ==
    CASE v.kind = "str" -> { v.str }
      [] v.kind = "list" -> { v.items[n] : n \in 1..Len(v.items) }
      [] v.kind = "map" -> { v.str } \cup { v.items[n] : n \in 1..Len(v.items) }
      [] OTHER -> { }
\* a value without the origin of its characters
PlainVal(v) ==
    [kind |-> v.kind, str |-> Plain(v.str),
     items |-> [n \in 1..Len(v.items) |-> Plain(v.items[n])], num |-> v.num]
\* the records built so far: the committed ones and the open one
RecordsBuilt == { results[r] : r \in 1..Len(results) } \cup { entry }

\* C1: every record appended to results starts with diagnosis and page_num and
\* has at least one more key; a record that holds nothing but its identity (a
\* heading for which no field was captured) is never in results.
C1_CommittedRecordsHaveField ==
    \A r \in 1..Len(results) :
        /\ Len(results[r]) > 2
        /\ Keys(results[r])[1] = DiagnosisKey
        /\ Keys(results[r])[2] = PageNumKey
        /\ \E n \in 1..Len(results[r]) :
               Keys(results[r])[n] \notin { DiagnosisKey, PageNumKey }

\* the scan is over, with one record committed and one heading dropped
C1_Witness ==
    /\ pc = "done"
    /\ Len(results) = 1
    /\ Cardinality({n \in 1..Len(all_spans) : IsNextDiagnosis(all_spans[n])}) = 2

\* C3: for every span list the scan terminates, and the cursor i is then
\* len(all_spans).
C3_ScanTerminates == <>(pc = "done" /\ i = Len(all_spans))

\* a scan that went through the label, content and outcomes loops is over
C3_Witness ==
    /\ pc = "done" /\ i = Len(all_spans)
    /\ Len(all_spans) = 5
    /\ Len(outcomes) = 1 /\ Len(results) = 1

\* C4: no key and no stored string of a record is built from the text of
\* spans of two different pages.
C4_NoCrossPageText ==
    \A rec \in RecordsBuilt :
        \A n \in 1..Len(rec) :
            /\ Cardinality(PagesOf(rec[n].key)) <= 1
            /\ \A str \in StringsOf(rec[n].val) : Cardinality(PagesOf(str)) <= 1

\* C5: when the handling of a label ends with zero content spans captured,
\* the record gets no new key.
C5_EmptyLabelAddsNoKey ==
    [][ ( /\ pc' = "in_record"
          /\ \/ pc = "content" /\ content = << >>
             \/ pc = "outcomes" /\ outcomes = << >>
             \/ pc = "label_merge" )
        => Keys(entry') = Keys(entry) ]_vars

\* C10: when the units captured under a label are "a" and "b;c", the value
\* stored for the label is the list ["a", "b", "c"].
C10_SemicolonSplitKeepsUnits ==
    [][ ( /\ pc = "content" /\ pc' = "in_record"
          /\ [n \in 1..Len(content) |-> Plain(content[n])]
                 = << << "a" >>, << "b", ";", "c" >> >> )
        => /\ HasKey(entry', norm_label)
           /\ PlainVal(DictGet(entry', norm_label))
                  = PlainVal(ListVal(<< Key(<< "a" >>), Key(<< "b" >>), Key(<< "c" >>) >>)) ]_vars

(***************************************************************************)
(* normalize_nnn_content_all_fields.py, lines 88-151:                      *)
(* NNNContentNormalizer.normalize_text_content.                            *)
(***************************************************************************)
\* str.replace(old, new): the occurrences of old, left to right, not overlapping
RECURSIVE ReplaceSeq(_, _, _)
ReplaceSeq(s, old, new) ==
    IF Len(s) < Len(old) THEN s
    ELSE IF Plain(SubSeq(s, 1, Len(old))) = old
    THEN Key(new) \o ReplaceSeq(SubSeq(s, Len(old) + 1, Len(s)), old, new)
    ELSE << s[1] >> \o ReplaceSeq(Tail(s), old, new)

\* line 100: unicodedata.normalize('NFKC', text), on the model's alphabet
Nfkc(s) == ReplaceChar(ReplaceChar(s, "NBSP", " "), "FULLWIDTH_COMMA", ",")

\* lines 107-108: the four replace calls of the source replace the ASCII
\* quote by itself
StandardizeQuotes(s) == ReplaceChar(ReplaceChar(s, "DQUOTE", "DQUOTE"), "APOS", "APOS")

\* lines 111-112: the three-character sequences the source replaces by "-"
StandardizeDashes(s) ==
    Then(Then(Then(s,
        LAMBDA t : ReplaceSeq(t, << "LOW9_QUOTE", "CAP_A_UML", "i_grave" >>, << "-" >>)),
        LAMBDA t : ReplaceSeq(t, << "LOW9_QUOTE", "CAP_A_UML", "i_circ" >>, << "-" >>)),
        LAMBDA t : ReplaceSeq(t, << "LOW9_QUOTE", "a_grave", "i_acute" >>, << "-" >>))

\* line 115: ' '.join(text.split())
NormalizeWhitespace(s) ==
    LET t == Strip(s)
    IN  KeepFrom([n \in 1..Len(t) |-> IF IsSpace(t[n].c) THEN [t[n] EXCEPT !.c = " "] ELSE t[n]],
                 {n \in 1..Len(t) : ~(IsSpace(t[n].c) /\ IsSpace(t[n - 1].c))}, 1)

\* lines 118-121
FixPunctuationSpacing(s) ==
    Then(Then(Then(Then(Then(Then(Then(Then(s,
        LAMBDA t : ReplaceSeq(t, << " ", "," >>, << "," >>)),
        LAMBDA t : ReplaceSeq(t, << " ", "." >>, << "." >>)),
        LAMBDA t : ReplaceSeq(t, << " ", ";" >>, << ";" >>)),
        LAMBDA t : ReplaceSeq(t, << " ", ":" >>, << ":" >>)),
        LAMBDA t : ReplaceSeq(t, << "(", " " >>, << "(" >>)),
        LAMBDA t : ReplaceSeq(t, << " ", ")" >>, << ")" >>)),
        LAMBDA t : ReplaceSeq(t, << "[", " " >>, << "[" >>)),
        LAMBDA t : ReplaceSeq(t, << " ", "]" >>, << "]" >>))

\* lines 124-125
StandardizeAbbreviations(s) ==
    Then(Then(Then(Then(s,
        LAMBDA t : ReplaceSeq(t, << "i", ".", "e", "." >>, << "i", ".", "e", ".", "," >>)),
        LAMBDA t : ReplaceSeq(t, << "e", ".", "g", "." >>, << "e", ".", "g", ".", "," >>)),
        LAMBDA t : ReplaceSeq(t, << " ", "etc" >>, << ",", " ", "etc" >>)),
        LAMBDA t : ReplaceSeq(t, << ",", "etc" >>, << ",", " ", "etc" >>))

\* lines 128-142: the corrections that change the text (the other four
\* entries of medical_corrections replace a word by itself)
MedicalCorrections(s) ==
    Then(Then(Then(s,
        LAMBDA t : ReplaceSeq(t, << "healthcare" >>, << "health", " ", "care" >>)),
        LAMBDA t : ReplaceSeq(t, << "selfcare" >>, << "self", "-", "care" >>)),
        LAMBDA t : ReplaceSeq(t, << "wellbeing" >>, << "well", "-", "being" >>))

normalize_text_content(s) ==
    IF s = << >> THEN s
    ELSE Then(Then(Then(Then(Then(Then(Then(Then(Then(s,
             Nfkc), Lower), StandardizeQuotes), StandardizeDashes), NormalizeWhitespace),
             FixPunctuationSpacing), StandardizeAbbreviations), MedicalCorrections), Strip)

(***************************************************************************)
(* normalize_nnn_content.py: NNNContentNormalizer.                         *)
(* A record loaded from JSON is [kind |-> "dict", fields |-> the key/value *)
(* pairs in insertion order]; a list element that is no mapping has the    *)
(* kind of its JSON value and no fields.  Keys are one-token texts.        *)
(***************************************************************************)
F(name) == Key(<< name >>)
Str(plain) == StrVal(Key(plain))
List(plains) == ListVal([n \in 1..Len(plains) |-> Key(plains[n])])
Dict(fields) == [kind |-> "dict", fields |-> fields]
NonDict(kind) == [kind |-> kind, fields |-> << >>]
Field(name, val) == [key |-> F(name), val |-> val]

\* lines 30-54, in the order the mapping is declared; of the nine refer_to
\* source keys the model keeps the first two
ReferToSource1 == "nic,_noc,_client_outcomes,_nursing_interventions_and_rationales,_and_references"
ReferToSource2 == "nic,_noc,_client_outcomes,_nursing_interventions_and_rationales,_client/family_teaching,_and_references"
field_mappings ==
    << [target |-> "suggested_nic_interventions",
        sources |-> << "suggested_nic_intervention", "suggested_nic_interventions",
                       "suggested_nursing_interventions" >>],
       [target |-> "suggested_noc_outcomes",
        sources |-> << "suggested_noc_outcome", "suggested_noc_outcomes",
                       "suggested_noc_outcomes_(visual)",
                       "suggested_noc_outcomes_and_example" >>],
       [target |-> "refer_to", sources |-> << ReferToSource1, ReferToSource2 >>],
       [target |-> "at_risk_population", sources |-> << "at-risk_population" >>] >>

\* lines 57-78
list_fields == { "defining_characteristics", "related_factors", "risk_factors",
                 "at_risk_population", "associated_conditions",
                 "suggested_interventions", "suggested_outcomes" }
string_fields == { "diagnosis", "definition", "refer_to" }
preserve_fields == { "page_num", "client_outcomes" }

\* lines 160-184
field_hierarchy ==
    << "diagnosis", "page_num", "definition", "defining_characteristics",
       "related_factors", "risk_factors", "at_risk_population",
       "associated_conditions", "suggested_noc_outcomes",
       "suggested_nic_interventions", "client_outcomes", "refer_to" >>

\* value is None or value == ""
IsNoneOrEmpty(v) == v.kind = "null" \/ (v.kind = "str" /\ v.str = << >>)

\* str(value) of a value that is neither a string nor a list
StrOf(v) ==
    IF v.kind = "int" THEN Key(<< ToString(v.num) >>)
    ELSE IF v.kind = "map" THEN Key(<< "{", "DICT_REPR", "}" >>)
    ELSE Key(<< "None" >>)

\* lines 88-104
normalize_to_list(value) ==
    IF IsNoneOrEmpty(value) THEN << >>
    ELSE IF value.kind = "list"
    THEN SelectSeq([n \in 1..Len(value.items) |-> Strip(value.items[n])],
                   LAMBDA item : item # << >>)
    ELSE IF value.kind = "str"
    THEN (IF Strip(value.str) # << >> THEN << Strip(value.str) >> ELSE << >>)
    ELSE << Strip(StrOf(value)) >>

\* item.strip().endswith(('.', '!', '?'))
EndsSentence(item) ==
    LET t == Strip(item) IN t # << >> /\ t[Len(t)].c \in { ".", "!", "?" }

\* lines 106-122
normalize_to_string(value) ==
    IF IsNoneOrEmpty(value) THEN << >>
    ELSE IF value.kind = "list"
    THEN LET truthy == SelectSeq(value.items, LAMBDA item : item # << >>)
             parts  == [n \in 1..Len(truthy) |-> Strip(truthy[n])]
         IN  IF \E n \in 1..Len(value.items) : EndsSentence(value.items[n])
             THEN Join(parts, Key(<< " " >>))
             ELSE Join(parts, Key(<< ",", " " >>))
    ELSE IF value.kind = "str" THEN Strip(value.str)
    ELSE Strip(StrOf(value))

\* lines 129-138: the values of the source fields, in the order of source_fields
RECURSIVE CollectValues(_, _)
CollectValues(fields, source_fields) ==
    IF source_fields = << >> THEN << >>
    ELSE LET source_field == F(Head(source_fields))
         IN  (IF HasKey(fields, source_field)
                  /\ ~IsNoneOrEmpty(DictGet(fields, source_field))
              THEN normalize_to_list(DictGet(fields, source_field))
              ELSE << >>)
             \o CollectValues(fields, Tail(source_fields))

\* lines 148-153: remove duplicates while preserving order
RECURSIVE UniqueValues(_)
UniqueValues(values) ==
    IF values = << >> THEN << >>
    ELSE LET rest == UniqueValues(SubSeq(values, 1, Len(values) - 1))
             last == values[Len(values)]
         IN  IF \E n \in 1..Len(rest) : rest[n] = last THEN rest ELSE Append(rest, last)

\* lines 124-155
consolidate_fields(fields, source_fields) ==
    UniqueValues(CollectValues(fields, source_fields))

(***************************************************************************)
(* The text normalizers applied to a string, and again to their result.    *)
(***************************************************************************)
TextAlphabet == { "a", "A", " ", "-", "ENDASH", ".", ",", "etc", "healthcare" }
TextInputs == UNION { [1..n -> TextAlphabet] : n \in 0..MaxLen }
TextNormalizers == { "normalize_text", "normalize_text_content" }

ApplyNormalizer(fn, s) ==
    IF fn = "normalize_text" THEN normalize_text(s) ELSE normalize_text_content(s)

InitText ==
    /\ pc = "text"
    /\ \E fn \in TextNormalizers, plain \in TextInputs :
           txt_in = [fn |-> fn, text |-> Key(plain)]
    /\ txt_out = << >>
    /\ ScanIdle /\ NormIdle /\ RawIdle /\ JsonIdle

\* y = normalize(x)
NormalizeOnce ==
    /\ pc = "text"
    /\ txt_out' = << ApplyNormalizer(txt_in.fn, txt_in.text) >>
    /\ pc' = "text_once"
    /\ UNCHANGED << txt_in, scanVars, normVars, rawVars, jsonVars >>

\* z = normalize(y)
NormalizeAgain ==
    /\ pc = "text_once"
    /\ txt_out' = Append(txt_out, ApplyNormalizer(txt_in.fn, txt_out[1]))
    /\ pc' = "text_twice"
    /\ UNCHANGED << txt_in, scanVars, normVars, rawVars, jsonVars >>

NextText == NormalizeOnce \/ NormalizeAgain

SpecText == InitText /\ [][NextText]_vars

\* C6: each text normalizer is idempotent: normalizing the result of a
\* normalization changes nothing.
C6_NormalizersIdempotent ==
    pc = "text_twice" => Plain(txt_out[2]) = Plain(txt_out[1])

\* lines 209-226: the consolidations, mapping after mapping
RECURSIVE ConsolidateMappings(_, _, _)
ConsolidateMappings(fields, normalized, m) ==
    IF m > Len(field_mappings) THEN normalized
    ELSE LET target_field == field_mappings[m].target
             consolidated == consolidate_fields(fields, field_mappings[m].sources)
         IN  ConsolidateMappings(fields,
                 IF consolidated = << >> THEN normalized
                 ELSE IF target_field = "refer_to"
                 THEN DictSet(normalized, F(target_field), StrVal(consolidated[1]))
                 ELSE DictSet(normalized, F(target_field), ListVal(consolidated)),
                 m + 1)

\* lines 224-226
processed_fields(fields) ==
    UNION { { field_mappings[m].sources[n] : n \in 1..Len(field_mappings[m].sources) } :
                m \in 1..Len(field_mappings) }
    \cap { Keys(fields)[n][1] : n \in 1..Len(fields) }

\* lines 234-261: one field of the raw record that no consolidation has read
ProcessField(normalized, field_name, value) ==
    LET target_field == IF field_name = "at-risk_population"
                        THEN "at_risk_population" ELSE field_name
    IN  IF target_field \in preserve_fields
        THEN DictSet(normalized, F(target_field),
                 IF value.kind # "null" THEN value
                 ELSE IF HasKey(normalized, F(target_field))
                 THEN DictGet(normalized, F(target_field)) ELSE NullVal)
        ELSE IF target_field \in string_fields
        THEN (IF IsNoneOrEmpty(value) THEN normalized
              ELSE DictSet(normalized, F(target_field), StrVal(normalize_to_string(value))))
        ELSE (IF IsNoneOrEmpty(value) THEN normalized
              ELSE DictSet(normalized, F(target_field), ListVal(normalize_to_list(value))))

\* lines 229-261
RECURSIVE ProcessRemaining(_, _, _)
ProcessRemaining(fields, normalized, n) ==
    IF n > Len(fields) THEN normalized
    ELSE LET field_name == Plain(fields[n].key)[1]
         IN  ProcessRemaining(fields,
                 IF field_name \in processed_fields(fields) THEN normalized
                 ELSE ProcessField(normalized, field_name, fields[n].val),
                 n + 1)

\* mutant of EnsureRequired: a missing diagnosis is left missing
EnsureRequired_NoPlaceholder(fields, normalized) ==
    IF ~HasKey(normalized, F("page_num"))
    THEN DictSet(normalized, F("page_num"), IntVal(0))
    ELSE normalized

\* lines 264-276
EnsureRequired(fields, normalized) ==
    LET with_diagnosis ==
            IF HasKey(normalized, F("diagnosis")) THEN normalized
            ELSE DictSet(normalized, F("diagnosis"), Str(<< "Unknown", " ", "Diagnosis" >>))
    IN  IF ~HasKey(with_diagnosis, F("page_num"))
        THEN DictSet(with_diagnosis, F("page_num"), IntVal(0))
        ELSE IF DictGet(with_diagnosis, F("page_num")) = IntVal(0)
                /\ HasKey(fields, F("page_num"))
        THEN DictSet(with_diagnosis, F("page_num"),
                 IF DictGet(fields, F("page_num")).kind = "int"
                 THEN IntVal(DictGet(fields, F("page_num")).num) ELSE IntVal(0))
        ELSE with_diagnosis

\* mutant of arrange_fields_hierarchically: every hierarchy field is emitted,
\* null when the record has none
arrange_fields_null_filled(normalized) ==
    [h \in 1..Len(field_hierarchy) |->
        Field(field_hierarchy[h],
              IF HasKey(normalized, F(field_hierarchy[h]))
              THEN DictGet(normalized, F(field_hierarchy[h])) ELSE NullVal)]
    \o SelectSeq(normalized,
            LAMBDA f : \A h \in 1..Len(field_hierarchy) :
                           field_hierarchy[h] # Plain(f.key)[1])

\* lines 157-200
arrange_fields_hierarchically(normalized) ==
    LET InHierarchy(name) == \E h \in 1..Len(field_hierarchy) : field_hierarchy[h] = name
        present == SelectSeq(field_hierarchy, LAMBDA name : HasKey(normalized, F(name)))
    IN  [h \in 1..Len(present) |-> Field(present[h], DictGet(normalized, F(present[h])))]
        \o SelectSeq(normalized, LAMBDA f : ~InHierarchy(Plain(f.key)[1]))

\* lines 202-280: the body of the try block, for a record that is a mapping
normalize_entry(fields) ==
    Then(Then(Then(ConsolidateMappings(fields, << >>, 1),
        LAMBDA normalized : ProcessRemaining(fields, normalized, 1)),
        LAMBDA normalized : EnsureRequired(fields, normalized)),
        arrange_fields_hierarchically)

(***************************************************************************)
(* normalize_data over a list loaded from JSON, then once more over its    *)
(* own output.                                                             *)
(***************************************************************************)
RawFields ==
    { Field("diagnosis", Str(<< "Fear" >>)),
      Field("page_num", IntVal(1)),
      Field("page_num", NullVal),
      Field("page_num", Str(<< "12" >>)),
      Field("definition", List(<< >>)),
      Field("definition", List(<< << "a", "." >>, << " ", "b" >> >>)),
      Field("related_factor", Str(<< "pain" >>)),
      Field("related_factors", List(<< << "stress" >> >>)),
      Field(ReferToSource1, Str(<< "A" >>)),
      Field("refer_to", Str(<< "B" >>)),
      Field("at-risk_population", List(<< << " ", "a" >>, << "a" >> >>)),
      Field("at_risk_population", List(<< << "b" >> >>)),
      Field("suggested_noc_outcome", Str(<< "b" >>)),
      Field("suggested_noc_outcomes", List(<< << "a" >>, << "b" >> >>)),
      Field("x", IntVal(1)),
      Field("x", Str(<< >>)) }

\* the mappings with at most MaxKeys distinct keys, in any insertion order
RawDicts ==
    { Dict(fs) : fs \in { fs \in UNION { [1..n -> RawFields] : n \in 0..MaxKeys } :
                            \A a, b \in 1..Len(fs) : a # b => fs[a].key # fs[b].key } }
\* what a JSON list can hold besides mappings
RawNonDicts == { NonDict("null"), NonDict("str"), NonDict("list"), NonDict("int") }
RawRecords == RawDicts \cup RawNonDicts
\* the records that surround the record under study in a longer list
RawCompanions == { NonDict("null"), Dict(<< >>) }

InitData ==
    /\ pc = "normalize"
    /\ \E n \in 1..MaxRecords, at \in 1..MaxRecords, record \in RawRecords :
           \E others \in [1..n -> RawCompanions] :
               /\ at <= n
               /\ data = [m \in 1..n |-> IF m = at THEN record ELSE others[m]]
    /\ normalized_data = << >>
    /\ errors = << >>
    /\ aborted = FALSE
    /\ run = 1
    /\ previous = << >>
    /\ ScanIdle /\ TextIdle /\ RawIdle /\ JsonIdle

\* lines 294-299, for a record whose normalization raises nothing
NormalizeEntry ==
    /\ pc = "normalize"
    /\ Len(normalized_data) < Len(data)
    /\ LET record == data[Len(normalized_data) + 1]
       IN  /\ record.kind = "dict"
           /\ normalized_data' = Append(normalized_data, Dict(normalize_entry(record.fields)))
    /\ UNCHANGED << pc, data, errors, aborted, run, previous, scanVars, textVars, rawVars, jsonVars >>

\* lines 207-229 and 282-283, for a list element that is no mapping: the try
\* block raises (None and numbers at "source_field in entry", strings and
\* lists at entry.items()), and so does entry.get in the handler, before
\* the message is appended to stats['errors']; nothing catches that
NormalizeEntryRaises ==
    /\ pc = "normalize"
    /\ Len(normalized_data) < Len(data)
    /\ data[Len(normalized_data) + 1].kind # "dict"
    /\ aborted' = TRUE
    /\ pc' = "raised"
    /\ UNCHANGED << data, normalized_data, errors, run, previous, scanVars, textVars, rawVars, jsonVars >>

\* lines 301-302
ReturnData ==
    /\ pc = "normalize"
    /\ Len(normalized_data) = Len(data)
    /\ pc' = "returned"
    /\ UNCHANGED << normVars, scanVars, textVars, rawVars, jsonVars >>

\* the output of the first run is the input of the second
Renormalize ==
    /\ pc = "returned"
    /\ run = 1
    /\ previous' = normalized_data
    /\ data' = normalized_data
    /\ normalized_data' = << >>
    /\ run' = 2
    /\ pc' = "normalize"
    /\ UNCHANGED << errors, aborted, scanVars, textVars, rawVars, jsonVars >>

NextData == NormalizeEntry \/ NormalizeEntryRaises \/ ReturnData \/ Renormalize

SpecData == InitData /\ [][NextData]_vars

\* the records of the first run's input that are mappings
IsDictAt(n) == n \in 1..Len(data) /\ data[n].kind = "dict"

\* C2: normalize_data returns one output record per input record, in input
\* order; a record whose normalization raises is passed through unchanged,
\* the failure is appended to stats['errors'], and the run is not aborted.
C2_OneOutputPerInput ==
    pc \in { "returned", "raised" } =>
        /\ ~aborted
        /\ Len(normalized_data) = Len(data)
        /\ \A n \in 1..Len(data) : ~IsDictAt(n) => normalized_data[n] = data[n]
        /\ Len(errors) = Cardinality({ n \in 1..Len(data) : ~IsDictAt(n) })

\* C7: a record returned by normalize_entry is a fixed point: normalizing
\* it again returns it with the same keys, key order and values.
C7_CanonicalRecordsAreFixedPoints ==
    (pc = "returned" /\ run = 2) => normalized_data = previous

\* C8: consolidate_fields returns the values of the present synonym keys
\* without duplicates, and the refer_to of the record returned by
\* normalize_entry is the first of them.
C8_ReferToIsFirstConsolidated ==
    \A n \in 1..Len(normalized_data) :
        (run = 1 /\ IsDictAt(n)) =>
            LET consolidated == consolidate_fields(data[n].fields, field_mappings[3].sources)
                all == CollectValues(data[n].fields, field_mappings[3].sources)
            IN  /\ \A a, b \in 1..Len(consolidated) :
                       a # b => consolidated[a] # consolidated[b]
                /\ { consolidated[a] : a \in 1..Len(consolidated) }
                       = { all[a] : a \in 1..Len(all) }
                /\ consolidated # << >> =>
                       DictGet(normalized_data[n].fields, F("refer_to"))
                           = StrVal(consolidated[1])

\* C9: a record with related_factor "pain" and related_factors ["stress"]
\* is normalized to a record whose related_factors is ["pain", "stress"].
C9_SingularAndPluralAreUnioned ==
    \A n \in 1..Len(normalized_data) :
        ( /\ run = 1 /\ IsDictAt(n)
          /\ HasKey(data[n].fields, F("related_factor"))
          /\ HasKey(data[n].fields, F("related_factors")) ) =>
            /\ HasKey(normalized_data[n].fields, F("related_factors"))
            /\ DictGet(normalized_data[n].fields, F("related_factors"))
                   = List(<< << "pain" >>, << "stress" >> >>)

UnknownDiagnosis == Str(<< "Unknown", " ", "Diagnosis" >>)

\* C11: a raw record that is a mapping without a diagnosis key is returned
\* with diagnosis "Unknown Diagnosis", and the list normalize_data returns
\* holds one record per input record, so that record is in it.
C11_MissingDiagnosisGetsPlaceholder ==
    /\ \A n \in 1..Len(normalized_data) :
           ~HasKey(data[n].fields, F("diagnosis")) =>
               /\ HasKey(normalized_data[n].fields, F("diagnosis"))
               /\ DictGet(normalized_data[n].fields, F("diagnosis")) = UnknownDiagnosis
    /\ pc = "returned" => Len(normalized_data) = Len(data)

\* a two-record list was returned whose second record had fields but no
\* diagnosis
C11_Witness ==
    /\ pc = "returned" /\ run = 1 /\ Len(data) = 2
    /\ data[2].fields # << >>
    /\ ~HasKey(data[2].fields, F("diagnosis"))
    /\ DictGet(normalized_data[2].fields, F("diagnosis")) = UnknownDiagnosis

\* C12: in every record returned by normalize_entry page_num is an integer:
\* an integer input is kept, any other input becomes its parsed value or 0.
C12_PageNumIsInteger ==
    \A n \in 1..Len(normalized_data) :
        /\ HasKey(normalized_data[n].fields, F("page_num"))
        /\ DictGet(normalized_data[n].fields, F("page_num")).kind = "int"
        /\ ( /\ HasKey(data[n].fields, F("page_num"))
             /\ DictGet(data[n].fields, F("page_num")).kind = "int" ) =>
               DictGet(normalized_data[n].fields, F("page_num"))
                   = DictGet(data[n].fields, F("page_num"))

\* the position of a key in a record, and of a name in the hierarchy (0: none)
KeyIndex(fields, name) ==
    IF HasKey(fields, F(name))
    THEN CHOOSE n \in 1..Len(fields) : Keys(fields)[n] = << name >> ELSE 0
HierarchyIndex(name) ==
    IF \E h \in 1..Len(field_hierarchy) : field_hierarchy[h] = name
    THEN CHOOSE h \in 1..Len(field_hierarchy) : field_hierarchy[h] = name ELSE 0
\* the source keys of the consolidations
SourceKeys ==
    UNION { { field_mappings[m].sources[n] : n \in 1..Len(field_mappings[m].sources) } :
                m \in 1..Len(field_mappings) }

\* C13: the keys of a returned record follow the declared hierarchy order,
\* and every raw field that maps to no canonical name is in the record,
\* after all hierarchy fields.
C13_HierarchyOrderAndNothingDropped ==
    \A n \in 1..Len(normalized_data) :
        LET out == normalized_data[n].fields
            name(a) == Keys(out)[a][1]
        IN  /\ \A a, b \in 1..Len(out) :
                   a < b =>
                       \/ HierarchyIndex(name(b)) = 0
                       \/ ( /\ HierarchyIndex(name(a)) # 0
                            /\ HierarchyIndex(name(a)) < HierarchyIndex(name(b)) )
            /\ \A f \in 1..Len(data[n].fields) :
                   LET raw == Keys(data[n].fields)[f][1]
                   IN  (HierarchyIndex(raw) = 0 /\ raw \notin SourceKeys) =>
                           KeyIndex(out, raw) # 0

\* the raw keys a canonical field can come from: its own name and the
\* source keys of its consolidation
SynonymsOf(name) ==
    { name } \cup
    UNION { { field_mappings[m].sources[n] : n \in 1..Len(field_mappings[m].sources) } :
                m \in { m \in 1..Len(field_mappings) : field_mappings[m].target = name } }

\* C14: a returned record always has diagnosis and page_num, and has any
\* other field only if the raw record carried that field or a synonym of it.
C14_AbsentFieldsAreOmitted ==
    \A n \in 1..Len(normalized_data) :
        LET out == normalized_data[n].fields
        IN  /\ HasKey(out, F("diagnosis"))
            /\ HasKey(out, F("page_num"))
            /\ \A a \in 1..Len(out) :
                   Keys(out)[a][1] \notin { "diagnosis", "page_num" } =>
                       \E raw \in SynonymsOf(Keys(out)[a][1]) :
                           HasKey(data[n].fields, F(raw))

\* a record that carried only a refer_to source key was returned with
\* exactly diagnosis, page_num and refer_to
C14_Witness ==
    /\ run = 1 /\ Len(normalized_data) >= 1
    /\ Keys(data[1].fields) = << << ReferToSource1 >> >>
    /\ Keys(normalized_data[1].fields)
           = << << "diagnosis" >>, << "page_num" >>, << "refer_to" >> >>

\* C15: a span with empty text never causes a field to be stored and never
\* becomes a stored value or a list element: no record holds an empty string.
C15_EmptySpansStoreNothing ==
    \A rec \in RecordsBuilt :
        \A n \in 1..Len(rec) : << >> \notin StringsOf(rec[n].val)

\* C16: with an empty diagnosis_set every heading-styled span is a record
\* boundary: a scan over spans that hold a heading-styled span has opened a
\* record when it is over.
C16_EmptySetFallsBackToStyle ==
    ( /\ pc = "done"
      /\ diagnosis_set = { }
      /\ \E n \in 1..Len(all_spans) : IsDiagnosisStyle(all_spans[n]) )
    => entry # << >>

(***************************************************************************)
(* extract_raw_NNN_content.py: the index-based extractor.  Sizes are in    *)
(* hundredths of a point.                                                  *)
(***************************************************************************)
heading_size == 2088
subsection_font == "font0000000022986fa2"
subsection_size == 936
subsection_color == 8388608
content_color == 0
outlier_subsection_size == 1152
outlier_subsection_color == 11815958
outlier_subsection_size2 == 1512
outlier_subsection_color2 == 2907757

\* line 116, the labels the model's alphabet can spell
special_subsection_labels == { << "definition" >> }
\* lines 197-204
excluded_subsections ==
    { << "nursing", "_", "interventions", "_", "and" >>,
      << "nursing", "_", "intervention", "_", "and" >>,
      << "nursing", "_", "interventions", "_", "and", "_" >>,
      << "and", "_", "references" >>,
      << "client", "_", "outcomes" >>,
      << "patient", "_", "outcomes" >> }

\* the spans the document can hold: a heading, a regular label, an excluded
\* label, an outlier label, a special label, two body lines and a blank one
RawPalette ==
    { RawSpan(<< "Fear" >>, subsection_font, heading_size, content_color),
      RawSpan(<< "Definition" >>, subsection_font, subsection_size, subsection_color),
      RawSpan(<< "Client", " ", "Outcomes" >>, subsection_font, subsection_size,
              subsection_color),
      RawSpan(<< "a" >>, "body", outlier_subsection_size, outlier_subsection_color),
      RawSpan(<< "Definition" >>, "body", outlier_subsection_size2,
              outlier_subsection_color2),
      RawSpan(<< "a" >>, "body", 1008, content_color),
      RawSpan(<< "b", ";", "c" >>, "body", 1008, content_color),
      RawSpan(<< " " >>, "body", 1008, content_color) }

\* lines 95-109
CollectRawSpans(raw) ==
    [n \in 1..Len(raw) |->
        [text |-> Plain(Strip(Key(raw[n].text))), font |-> raw[n].font,
         size |-> raw[n].size, color |-> raw[n].color, page_num |-> 1,
         index |-> n - 1]]

\* span["text"].lower().strip()
LowerStrip(text) == Plain(Strip(Lower(Key(text))))

InitRaw ==
    /\ pc = "raw_classify"
    /\ \E n \in 0..MaxSpans : \E raw \in [1..n -> RawPalette] :
           all_spans = CollectRawSpans(raw)
    /\ \E list \in DiagnosisLists :
           diagnosis_set = { LowerStrip(list[n]) : n \in 1..Len(list) }
    /\ i = 0 /\ j = 0 /\ k = 0
    /\ entry = << >> /\ results = << >>
    /\ sub_label = << >> /\ content = << >> /\ outcomes = << >>
    /\ content_text = << >> /\ client_will = << >> /\ norm_label = << >>
    /\ RawIdle /\ TextIdle /\ NormIdle /\ JsonIdle

\* lines 118-178: one span of the classification loop
ClassifySpan ==
    /\ pc = "raw_classify"
    /\ i < Len(all_spans)
    /\ LET span == SpanAt(i)
           found(type) == [label |-> span.text, index |-> span.index,
                           page_num |-> span.page_num, type |-> type]
       IN  IF /\ span.size = heading_size /\ span.color = content_color
              /\ span.text # << >> /\ LowerStrip(span.text) \in diagnosis_set
           THEN /\ headings' = Append(headings, [text |-> span.text, index |-> span.index,
                                                 page_num |-> span.page_num])
                /\ UNCHANGED subsections
           ELSE /\ UNCHANGED headings
                /\ subsections' =
                     IF /\ span.size = subsection_size /\ span.font = subsection_font
                        /\ span.color = subsection_color /\ span.text # << >>
                     THEN Append(subsections, found("regular"))
                     ELSE IF /\ span.size = outlier_subsection_size
                             /\ span.color = outlier_subsection_color /\ span.text # << >>
                     THEN Append(subsections, found("outlier"))
                     ELSE IF /\ span.size = outlier_subsection_size2
                             /\ span.color = outlier_subsection_color2 /\ span.text # << >>
                             /\ LowerStrip(span.text) \in special_subsection_labels
                     THEN Append(subsections, found("special_outlier2"))
                     ELSE subsections
    /\ i' = i + 1
    /\ UNCHANGED << pc, all_spans, diagnosis_set, j, k, entry, results, sub_label, content,
                    outcomes, content_text, client_will, norm_label, diagnosis_sections >>
    /\ UNCHANGED << textVars, normVars, jsonVars >>

\* line 191: headings.sort(key=lambda x: x["index"])
SortByIndex(hs) ==
    [n \in 1..Len(hs) |->
        CHOOSE h \in { hs[m] : m \in 1..Len(hs) } :
            Cardinality({ m \in 1..Len(hs) : hs[m].index < h.index }) = n - 1]

\* lines 180-194: the classification is over
EndClassify ==
    /\ pc = "raw_classify"
    /\ i = Len(all_spans)
    /\ headings' = SortByIndex(headings)
    /\ i' = 0
    /\ pc' = "raw_extract"
    /\ UNCHANGED << all_spans, diagnosis_set, j, k, entry, results, sub_label, content,
                    outcomes, content_text, client_will, norm_label, subsections,
                    diagnosis_sections >>
    /\ UNCHANGED << textVars, normVars, jsonVars >>

\* lines 232-249: the texts of the content spans with index in from..(to - 1)
RECURSIVE ContentTexts(_, _)
ContentTexts(from, to) ==
    IF from >= to THEN << >>
    ELSE LET span == SpanAt(from)
             is_heading == span.size = heading_size /\ span.color = content_color
             is_subsection ==
                 \/ span.size = subsection_size /\ span.color = subsection_color
                 \/ span.size = outlier_subsection_size
                        /\ span.color = outlier_subsection_color
             is_outlier2 == span.size = outlier_subsection_size2
                                /\ span.color = outlier_subsection_color2
         IN  (IF /\ ~is_outlier2 /\ ~is_heading /\ ~is_subsection
                 /\ span.text # << >> /\ span.color = content_color
              THEN << Key(span.text) >> ELSE << >>)
             \o ContentTexts(from + 1, to)

\* lines 215-258: the fields of one section, subsection after subsection
RECURSIVE SectionData(_, _, _, _)
SectionData(section_subs, n, end_idx, section_data) ==
    IF n > Len(section_subs) THEN section_data
    ELSE LET subsection == section_subs[n]
             label_key == ReplaceChar(Lower(Key(subsection.label)), " ", "_")
             content_end == IF n + 1 <= Len(section_subs)
                            THEN section_subs[n + 1].index ELSE end_idx
             content_texts == ContentTexts(subsection.index + 1, content_end)
             joined == Strip(ReplaceChar(Join(content_texts, << SP >>), "\n", " "))
             pieces == SelectSeq(Split(joined, ";"), LAMBDA c : Strip(c) # << >>)
         IN  SectionData(section_subs, n + 1, end_idx,
                 IF \/ Plain(label_key) \in excluded_subsections
                    \/ subsection.type = "outlier"
                    \/ content_texts = << >>
                 THEN section_data
                 ELSE IF \E c \in 1..Len(joined) : joined[c].c = ";"
                 THEN DictSet(section_data, label_key,
                              ListVal([c \in 1..Len(pieces) |-> Strip(pieces[c])]))
                 ELSE DictSet(section_data, label_key, StrVal(joined)))

\* lines 206-264: one heading of the extraction loop
ExtractSection ==
    /\ pc = "raw_extract"
    /\ i < Len(headings)
    /\ LET heading == headings[i + 1]
           start_idx == heading.index + 1
           end_idx == IF i + 1 < Len(headings) THEN headings[i + 2].index
                      ELSE Len(all_spans)
           section_subs ==
               SelectSeq(subsections, LAMBDA sb : start_idx <= sb.index /\ sb.index < end_idx)
       IN  diagnosis_sections' =
               Append(diagnosis_sections,
                      SectionData(section_subs, 1, end_idx,
                          << [key |-> Key(DiagnosisKey), val |-> StrVal(Key(heading.text))],
                             [key |-> Key(PageNumKey), val |-> IntVal(heading.page_num)] >>))
    /\ i' = i + 1
    /\ UNCHANGED << pc, all_spans, diagnosis_set, j, k, entry, results, sub_label, content,
                    outcomes, content_text, client_will, norm_label, headings, subsections >>
    /\ UNCHANGED << textVars, normVars, jsonVars >>

\* lines 266-269
FinishRaw ==
    /\ pc = "raw_extract"
    /\ i = Len(headings)
    /\ pc' = "raw_done"
    /\ UNCHANGED << scanVars, textVars, normVars, rawVars, jsonVars >>

NextRaw == ClassifySpan \/ EndClassify \/ ExtractSection \/ FinishRaw

SpecRaw == InitRaw /\ [][NextRaw]_vars

\* C17: a heading whose section yields no subsection content produces no
\* record: every record of diagnosis_sections has a field beyond diagnosis
\* and page_num.
C17_HeadingAloneIsNoRecord ==
    \A r \in 1..Len(diagnosis_sections) : Len(diagnosis_sections[r]) > 2

\* C18: after the stop marker closed a record, nothing is captured until the
\* next heading: while the scan seeks with the stop label as the last label
\* normalized, the entry changes only at a heading-styled span.
C18_NothingCapturedAfterStopUntilHeading ==
    [][ ( /\ pc = "seek" /\ IsStopLabel(norm_label)
          /\ i < Len(all_spans) /\ entry' # entry )
        => IsDiagnosisStyle(SpanAt(i)) ]_vars

\* C19: a record is opened only at a heading-styled span whose text is in the
\* identity set: the scan leaves "seek" for "in_record" at no other span.
C19_RecordsOpenOnlyAtHeadings ==
    [][ (pc = "seek" /\ pc' = "in_record")
        => (IsDiagnosisStyle(SpanAt(i)) /\ InDiagnosisSet(SpanAt(i))) ]_vars

\* C20: inside an open record, a heading-styled span of the identity set closes
\* the record (committed only if it has a field) and leaves the cursor where
\* it is; the seek step then opens the next record at that same span, with
\* its text as diagnosis and its page as page_num.
C20_HeadingClosesAndReopens ==
    [][ /\ ( /\ pc = "in_record" /\ i < Len(all_spans)
              /\ IsNextDiagnosis(SpanAt(i)) )
            => ( /\ i' = i /\ pc' = "seek" /\ entry' = entry
                 /\ results' = IF Len(entry) > 2 THEN Append(results, entry)
                                ELSE results )
        /\ ( /\ pc = "seek" /\ i < Len(all_spans)
              /\ IsNextDiagnosis(SpanAt(i)) )
            => ( /\ i' = i + 1 /\ pc' = "in_record" /\ results' = results
                 /\ Len(entry') = 2
                 /\ entry'[1] = [key |-> Key(DiagnosisKey),
                                 val |-> StrVal(normalize_val(TextAt(i)))]
                 /\ entry'[2] = [key |-> Key(PageNumKey),
                                 val |-> IntVal(SpanAt(i).page_num)] ) ]_vars

\* a second record was opened at the heading that closed and committed the
\* first one
C20_Witness ==
    /\ pc = "in_record" /\ i > 1
    /\ IsNextDiagnosis(all_spans[i])
    /\ ~IsStopLabel(norm_label)
    /\ Len(results) = 1 /\ Len(entry) = 2
    /\ entry[2].val = IntVal(all_spans[i].page_num)
    /\ results[1][2].val # entry[2].val

\* the span at index n follows a label of the open record with no label, heading
\* or record opening in between
AfterLabelOfOpenRecord(n) ==
    \E m \in 0..(n - 1) :
        /\ IsSubsectionStyle(SpanAt(m)) /\ ~InDiagnosisSet(SpanAt(m))
        /\ \A q \in (m + 1)..(n - 1) :
               /\ ~IsSubsectionStyle(SpanAt(q))
               /\ ~IsDiagnosisStyle(SpanAt(q))
               /\ ~InDiagnosisSet(SpanAt(q))

\* C21: after a label that is neither the stop marker nor client_outcomes,
\* every body-content-styled span up to the next label or heading belongs to
\* the field: the in-record loop never stands at (and so never passes over) a
\* non-blank body-content-styled span that follows such a label.
C21_NoiseDoesNotEndCapture ==
    ( /\ pc = "in_record" /\ i < Len(all_spans)
      /\ IsContentStyle(SpanAt(i)) /\ SpanAt(i).text # << >>
      /\ Plain(norm_label) # ClientOutcomesKey )
    => ~AfterLabelOfOpenRecord(i)

\* the index after the maximal run of label-styled spans that starts at n and
\* stays on the page of span n
LabelRunEnd(n) ==
    CHOOSE q \in (n + 1)..Len(all_spans) :
        /\ \A m \in (n + 1)..(q - 1) :
               IsSubsectionStyle(SpanAt(m)) /\ SpanAt(m).page_num = SpanAt(n).page_num
        /\ q < Len(all_spans) =>
               ~(IsSubsectionStyle(SpanAt(q)) /\ SpanAt(q).page_num = SpanAt(n).page_num)
\* the texts of the spans n..(q - 1), separated by single spaces
SpacedTexts(n, q) == Join([m \in 1..(q - n) |-> TextAt(n + m - 1)], << SP >>)

\* C22: when the label merge ends, the field label is the key-normalized
\* concatenation, with single spaces, of the label-styled span at the cursor
\* and of the maximal run of following label-styled spans of the same page;
\* unless the label is the stop marker, the cursor moves to the first span
\* after that run (and past the header span when the outcomes loop opens).
C22_LabelIsTheMergedRun ==
    [][ (pc = "label_merge" /\ pc' # "label_merge")
        => /\ norm_label' = normalize_key(SpacedTexts(i, LabelRunEnd(i)))
           /\ pc' \in { "content", "in_record" } => i' = LabelRunEnd(i)
           /\ pc' = "outcomes" => i' = LabelRunEnd(i) + 1
           /\ pc' = "seek" => IsStopLabel(norm_label') ]_vars

\* a label merged from two spans opened the content capture
C22_Witness ==
    /\ pc = "content" /\ i = j /\ i >= 3
    /\ IsSubsectionStyle(all_spans[i]) /\ IsSubsectionStyle(all_spans[i - 1])
    /\ Plain(norm_label) = << "definition", "_", "definition" >>

\* the value the shape rule prescribes for the captured units: the trimmed,
\* non-empty pieces between the semicolons of the space-joined units, else the
\* single unit, else the units
ShapeOfUnits(units) ==
    LET joined == Join(units, << SP >>)
        pieces == SelectSeq(Split(joined, ";"), LAMBDA c : Strip(c) # << >>)
    IN  IF \E n \in 1..Len(joined) : joined[n].c = ";"
        THEN ListVal([n \in 1..Len(pieces) |-> Strip(pieces[n])])
        ELSE IF Len(units) = 1 THEN StrVal(units[1])
        ELSE ListVal(units)

LineRunEnd(n) ==
    CHOOSE q \in (n + 1)..Len(all_spans) :
        /\ \A m \in (n + 1)..(q - 1) :
               IsOutcomeLineStyle(SpanAt(m)) /\ SpanAt(m).page_num = SpanAt(n).page_num
        /\ q < Len(all_spans) =>
               ~(IsOutcomeLineStyle(SpanAt(q)) /\ SpanAt(q).page_num = SpanAt(n).page_num)
\* the merged content lines among the spans from..(to - 1), in order
RECURSIVE OutcomeLines(_, _)
OutcomeLines(from, to) ==
    IF from >= to THEN << >>
    ELSE IF IsOutcomeLineStyle(SpanAt(from))
    THEN << Plain(normalize_val(SpacedTexts(from, LineRunEnd(from)))) >>
             \o OutcomeLines(LineRunEnd(from), to)
    ELSE OutcomeLines(from + 1, to)

\* C24: when the outcomes loop ends, the value stored under client_outcomes is
\* the map of client_will, the text of the header span that followed the
\* label, and outcomes, the merged content lines between the header and the
\* next label-styled span or identity heading, in order; no text of a
\* bullet-marker-styled span is among them.
C24_ClientOutcomesMap ==
    [][ (pc = "outcomes" /\ pc' = "in_record")
        => LET value == PlainVal(DictGet(entry', Key(ClientOutcomesKey)))
           IN  /\ Plain(norm_label) = ClientOutcomesKey
               /\ HasKey(entry', Key(ClientOutcomesKey))
               /\ value.kind = "map"
               /\ \E h \in 1..(i - 1) :
                      /\ IsClientWillStyle(SpanAt(h)) /\ IsSubsectionStyle(SpanAt(h - 1))
                      /\ \A m \in (h + 1)..(i - 1) :
                             ~IsSubsectionStyle(SpanAt(m)) /\ ~IsNextDiagnosis(SpanAt(m))
                      /\ value.str = Plain(normalize_val(TextAt(h)))
                      /\ value.items = OutcomeLines(h + 1, i)
               /\ \A n \in 1..Len(value.items) :
                      \A c \in 1..Len(value.items[n]) : value.items[n][c] # "BULLET" ]_vars

\* a line was stored in outcomes although a bullet marker preceded it
C24_Witness ==
    /\ pc = "in_record" /\ i = Len(all_spans)
    /\ HasKey(entry, Key(ClientOutcomesKey))
    /\ DictGet(entry, Key(ClientOutcomesKey)).kind = "map"
    /\ Len(DictGet(entry, Key(ClientOutcomesKey)).items) = 1
    /\ \E n \in 2..Len(all_spans) :
           IsBulletStyle(all_spans[n - 1]) /\ IsOutcomeLineStyle(all_spans[n])

\* C25: normalize_to_string joins the trimmed elements of a list with ". " if
\* an element ends in '.', '!' or '?', and with ", " otherwise: the definition
\* returned for a raw definition that is a non-empty list is that join.
C25_SentencesJoinedWithPeriod ==
    \A n \in 1..Len(normalized_data) :
        ( /\ run = 1 /\ IsDictAt(n)
          /\ HasKey(data[n].fields, F("definition"))
          /\ DictGet(data[n].fields, F("definition")).kind = "list"
          /\ DictGet(data[n].fields, F("definition")).items # << >> ) =>
            LET items == DictGet(data[n].fields, F("definition")).items
                parts == [m \in 1..Len(items) |-> Strip(items[m])]
            IN  /\ HasKey(normalized_data[n].fields, F("definition"))
                /\ DictGet(normalized_data[n].fields, F("definition")) =
                       StrVal(IF \E m \in 1..Len(items) : EndsSentence(items[m])
                              THEN Join(parts, Key(<< ".", " " >>))
                              ELSE Join(parts, Key(<< ",", " " >>)))

\* C26: the cursor i never decreases and stays within 0..len(all_spans); while
\* a label merge runs, j is beyond i and at most len(all_spans), and so is k
\* while a content or outcome merge runs, so that "i = j" and "i = k" move
\* the cursor forward.
C26_CursorMovesForward ==
    /\ []( /\ 0 <= i /\ i <= Len(all_spans)
           /\ pc = "label_merge" => (i < j /\ j <= Len(all_spans))
           /\ pc \in { "content_merge", "outcomes_merge" } =>
                  (i < k /\ k <= Len(all_spans)) )
    /\ [][ i' >= i ]_vars

\* a content merge has looked two spans ahead of the cursor, to the end
C26_Witness ==
    pc = "content_merge" /\ k = i + 2 /\ k = Len(all_spans)

\* a label-styled span whose own text begins with the stop marker lies before
\* index n, with no record opened after it
StopSpanBefore(n) ==
    \E m \in 0..(n - 1) :
        /\ IsSubsectionStyle(SpanAt(m))
        /\ IsStopLabel(normalize_key(TextAt(m)))
        /\ \A q \in (m + 1)..(n - 1) : ~InDiagnosisSet(SpanAt(q))

\* C27: a label-styled span whose own text begins with the stop marker ends
\* the open record, also when it is merged into the label of the span before
\* it: no field is stored in a record from content located after such a span.
C27_StopSpanAlwaysEndsRecord ==
    [][ (pc \in { "content", "outcomes" } /\ entry' # entry) => ~StopSpanBefore(i) ]_vars

\* C28: normalize_entry loses no consolidated value: every non-empty trimmed
\* value found under a synonym key of a list-valued canonical field is among
\* the values of that field in the returned record, whatever other keys the
\* raw record carries.
C28_NoConsolidatedValueLost ==
    \A n \in 1..Len(normalized_data) :
        (run = 1 /\ IsDictAt(n)) =>
            \A m \in { m \in 1..Len(field_mappings) : field_mappings[m].target # "refer_to" } :
                LET found == CollectValues(data[n].fields, field_mappings[m].sources)
                    target == F(field_mappings[m].target)
                IN  found # << >> =>
                        /\ HasKey(normalized_data[n].fields, target)
                        /\ DictGet(normalized_data[n].fields, target).kind = "list"
                        /\ \A v \in 1..Len(found) :
                               \E w \in 1..Len(DictGet(normalized_data[n].fields, target).items) :
                                   DictGet(normalized_data[n].fields, target).items[w] = found[v]

\* C29: the diagnosis and page_num of every committed record are the
\* normalized text and the page of a span of the identity set, the one that
\* opened it: no label captured inside the record overwrites them.
C29_IdentityIsNeverOverwritten ==
    \A r \in 1..Len(results) :
        \E n \in 1..Len(all_spans) :
            /\ InDiagnosisSet(all_spans[n])
            /\ PlainVal(DictGet(results[r], Key(DiagnosisKey)))
                   = PlainVal(StrVal(normalize_val(TextAt(n - 1))))
            /\ DictGet(results[r], Key(PageNumKey)) = IntVal(all_spans[n].page_num)

(***************************************************************************)
(* normalize_nnn_json.py: the singular/plural normalizer and its counters. *)
(***************************************************************************)
\* lines 15-21
to_list(val) ==
    IF val.kind = "list" THEN [n \in 1..Len(val.items) |-> Lower(val.items[n])]
    ELSE IF IsNoneOrEmpty(val) THEN << >>
    ELSE IF val.kind = "str" THEN << Lower(val.str) >>
    ELSE << Lower(StrOf(val)) >>

\* lines 23-30
to_str(val) ==
    IF val.kind = "list"
    THEN Join([n \in 1..Len(val.items) |-> Lower(val.items[n])], << SP >>)
    ELSE IF val.kind = "null" THEN << >>
    ELSE IF val.kind = "str" THEN Lower(val.str)
    ELSE Lower(StrOf(val))

\* lines 51-55: the calls of get_field_value, in order: the output key, the
\* singular key, the plural key f"{field_base}s" and the name of the counters
field_types ==
    << [target |-> "defining_characteristics", singular |-> "defining_characteristic",
        plural |-> "defining_characteristics", field_type |-> "defining_characteristics"],
       [target |-> "related_factors", singular |-> "related_factor",
        plural |-> "related_factors", field_type |-> "related_factors"],
       [target |-> "risk_factors", singular |-> "risk_factor",
        plural |-> "risk_factors", field_type |-> "risk_factors"],
       [target |-> "suggested_outcomes", singular |-> "suggested_noc_outcome",
        plural |-> "suggested_noc_outcomes", field_type |-> "noc_outcomes"],
       [target |-> "suggested_interventions", singular |-> "suggested_nic_intervention",
        plural |-> "suggested_nic_interventions", field_type |-> "nic_interventions"] >>

\* the counters of field_stats, a defaultdict(int): a counter reads 0 until
\* it is incremented
StatKeys ==
    { << field_types[n].field_type, found >> :
        n \in 1..Len(field_types), found \in { "plural_found", "singular_found", "not_found" } }

\* lines 38-46: the value get_field_value returns
get_field_value(fields, ft) ==
    IF HasKey(fields, F(ft.plural)) THEN DictGet(fields, F(ft.plural))
    ELSE IF HasKey(fields, F(ft.singular)) THEN DictGet(fields, F(ft.singular))
    ELSE ListVal(<< >>)

\* mutant of CountField: a record with both keys is counted under both
CountField_Both(stats, fields, ft) ==
    LET plural == IF HasKey(fields, F(ft.plural)) THEN 1 ELSE 0
        singular == IF HasKey(fields, F(ft.singular)) THEN 1 ELSE 0
    IN  [stats EXCEPT ![<< ft.field_type, "plural_found" >>] = @ + plural,
                      ![<< ft.field_type, "singular_found" >>] = @ + singular,
                      ![<< ft.field_type, "not_found" >>] =
                          @ + (IF plural + singular = 0 THEN 1 ELSE 0)]

\* lines 38-46: the counter get_field_value increments
CountField(stats, fields, ft) ==
    IF HasKey(fields, F(ft.plural))
    THEN [stats EXCEPT ![<< ft.field_type, "plural_found" >>] = @ + 1]
    ELSE IF HasKey(fields, F(ft.singular))
    THEN [stats EXCEPT ![<< ft.field_type, "singular_found" >>] = @ + 1]
    ELSE [stats EXCEPT ![<< ft.field_type, "not_found" >>] = @ + 1]

\* the counters after the calls n..5 of lines 51-55
RECURSIVE CountFields(_, _, _)
CountFields(stats, fields, n) ==
    IF n > Len(field_types) THEN stats
    ELSE CountFields(CountField(stats, fields, field_types[n]), fields, n + 1)

\* lines 48-56: the record normalize_entry returns
normalize_json_entry(fields) ==
    << Field("diagnosis",
             StrVal(IF HasKey(fields, F("diagnosis"))
                    THEN to_str(DictGet(fields, F("diagnosis"))) ELSE << >>)),
       Field("definition",
             StrVal(IF HasKey(fields, F("definition"))
                    THEN to_str(DictGet(fields, F("definition"))) ELSE << >>)) >>
    \o [n \in 1..Len(field_types) |->
           Field(field_types[n].target,
                 ListVal(to_list(get_field_value(fields, field_types[n]))))]

\* the fields a record of raw_NNN_content.json can carry
JsonFields ==
    { Field("diagnosis", Str(<< "Fear" >>)),
      Field("definition", List(<< << "A" >>, << "b" >> >>)),
      Field("defining_characteristic", Str(<< "A" >>)),
      Field("defining_characteristics", List(<< << "a" >> >>)),
      Field("related_factor", Str(<< "pain" >>)),
      Field("related_factors", List(<< << "stress" >> >>)),
      Field("risk_factor", NullVal),
      Field("risk_factors", List(<< >>)),
      Field("suggested_noc_outcome", Str(<< "b" >>)),
      Field("suggested_noc_outcomes", List(<< << "a" >>, << "b" >> >>)),
      Field("suggested_nic_intervention", IntVal(1)) }
\* the mappings with at most MaxKeys distinct keys, in any insertion order,
\* and a list element that is no mapping
JsonRecords ==
    { Dict(fs) : fs \in { fs \in UNION { [1..n -> JsonFields] : n \in 0..MaxKeys } :
                            \A a, b \in 1..Len(fs) : a # b => fs[a].key # fs[b].key } }
    \cup { NonDict("null") }
\* the records that surround the record under study in a longer list
JsonCompanions ==
    { Dict(<< >>), Dict(<< Field("related_factors", List(<< << "stress" >> >>)) >>) }

\* lines 221-230
InitJson ==
    /\ pc = "json"
    /\ \E n \in 1..MaxRecords, at \in 1..MaxRecords, record \in JsonRecords :
           \E others \in [1..n -> JsonCompanions] :
               /\ at <= n
               /\ data = [m \in 1..n |-> IF m = at THEN record ELSE others[m]]
    /\ normalized_data = << >>
    /\ field_stats = [key \in StatKeys |-> 0]
    /\ errors = << >> /\ aborted = FALSE /\ run = 1 /\ previous = << >>
    /\ ScanIdle /\ TextIdle /\ RawIdle

\* lines 231-233: one record of the loop of main
NormalizeJsonEntry ==
    /\ pc = "json"
    /\ Len(normalized_data) < Len(data)
    /\ LET record == data[Len(normalized_data) + 1]
       IN  /\ record.kind = "dict"
           /\ normalized_data' =
                  Append(normalized_data, Dict(normalize_json_entry(record.fields)))
           /\ field_stats' = CountFields(field_stats, record.fields, 1)
    /\ UNCHANGED << pc, data, errors, aborted, run, previous, scanVars, textVars, rawVars >>

\* line 49, for a list element that is no mapping: entry.get raises before a
\* counter is touched, and main catches nothing
JsonEntryRaises ==
    /\ pc = "json"
    /\ Len(normalized_data) < Len(data)
    /\ data[Len(normalized_data) + 1].kind # "dict"
    /\ aborted' = TRUE
    /\ pc' = "json_raised"
    /\ UNCHANGED << data, normalized_data, errors, run, previous, scanVars, textVars,
                    rawVars, jsonVars >>

\* lines 235-244
FinishJson ==
    /\ pc = "json"
    /\ Len(normalized_data) = Len(data)
    /\ pc' = "json_done"
    /\ UNCHANGED << normVars, scanVars, textVars, rawVars, jsonVars >>

NextJson == NormalizeJsonEntry \/ JsonEntryRaises \/ FinishJson

SpecJson == InitJson /\ [][NextJson]_vars

\* C30: after normalize_entry has processed n records, for each of the five
\* field types plural_found + singular_found + not_found = n; a record
\* increments exactly one of the three, the plural one when its plural key is
\* present, else the singular one when its singular key is present.
C30_CountersAddUp ==
    /\ [](\A n \in 1..Len(field_types) :
             LET t == field_types[n].field_type
             IN  field_stats[<< t, "plural_found" >>] + field_stats[<< t, "singular_found" >>]
                     + field_stats[<< t, "not_found" >>] = Len(normalized_data))
    /\ [][ Len(normalized_data') = Len(normalized_data) + 1 =>
              \A n \in 1..Len(field_types) :
                  LET fields == data[Len(normalized_data) + 1].fields
                      t == field_types[n].field_type
                      found == IF HasKey(fields, F(field_types[n].plural)) THEN "plural_found"
                               ELSE IF HasKey(fields, F(field_types[n].singular))
                               THEN "singular_found" ELSE "not_found"
                  IN  \A other \in { "plural_found", "singular_found", "not_found" } :
                          field_stats'[<< t, other >>] =
                              field_stats[<< t, other >>] + (IF other = found THEN 1 ELSE 0)
          ]_vars

\* two records were processed, one of them with both related_factor and
\* related_factors, and it was counted as plural
C30_Witness ==
    /\ pc = "json_done" /\ Len(normalized_data) = 2
    /\ \E n \in 1..2 :
           /\ HasKey(data[n].fields, F("related_factor"))
           /\ HasKey(data[n].fields, F("related_factors"))
    /\ field_stats[<< "related_factors", "singular_found" >>] = 0
    /\ field_stats[<< "related_factors", "plural_found" >>] >= 1

====
